---- MODULE Spec2Model ----
(***************************************************************************)
(* Cheque extraction service: the job registry and its three HTTP          *)
(* handlers (main.py), the job orchestrator with its bounded-concurrency   *)
(* batch run (processing.py) and the endpoint client's retry loop          *)
(* (utils.py).                                                             *)
(*                                                                         *)
(* The service runs on one cooperative event loop: a coroutine runs        *)
(* without interruption from one await to the next.  Every action below    *)
(* is one such stretch, except that the synchronous tail of the            *)
(* orchestrator (row building, CSV write, status update, exit of the       *)
(* temporary directory) is split into its program-order steps; while a     *)
(* job is inside that tail no other coroutine takes a step.                *)
(*                                                                         *)
(* Five specifications are given.  Spec is the service: uploads, the       *)
(* background tasks of the jobs with their units, the read handlers.       *)
(* UnitSpec runs one coroutine process_single_document_async by itself,    *)
(* stepped by the same operators as the units of Spec, and keeps what Spec *)
(* leaves out: the client's delay and chosen wait, and counts of requests, *)
(* client calls and sleeps, for every malformed-output budget and backoff  *)
(* factor.  TableSpec runs the row loop and the column derivation of the   *)
(* orchestrator by themselves, cell by cell, on lists of results, and      *)
(* runs them a second time.  ScenarioSpec is one job of five units run     *)
(* two at a time against an endpoint with fixed answers, under weak        *)
(* fairness of the event loop.  LiveSpec is the service with its jobs      *)
(* submitted one after the other, under weak fairness of the steps of      *)
(* each job's background task.                                             *)
(***************************************************************************)
EXTENDS Integers, Sequences, FiniteSets, TLC

\* ---- bounds of the model ------------------------------------------------
MaxTotalUnits == 2
\* eligible images over all uploads
API_CONCURRENCY_LIMIT == 1
\* config.API_CONCURRENCY_LIMIT (50 in config.py), scaled down
API_RETRIES == 2
\* config.API_RETRIES (50 in config.py), scaled down

MaxJsonRetries == 4
\* largest malformed-output budget config.JSON_RETRIES is tried with
MaxOutcomes == 2
\* longest list of results the row loop is run on by itself

\* ---- program constants --------------------------------------------------
JSON_RETRIES == 3
JSON_SLEEP_BELOW == 2
\* asyncio.sleep(1) of the JSON retry loop, in seconds
JSON_SLEEP_SECONDS == 1
\* Time is counted in half seconds: initial_delay, 1.5 s, is 3.
initial_delay == 3

\* The values uuid.uuid4() draws the job ids from: two ids, enough for one
\* job and for a pair of jobs running side by side.
Jobs == {1, 2}

VARIABLES
    processed_jobs,   \* main.processed_jobs: job id -> job record (a dict)
    pc,               \* position of each job's background task
    file_contents,    \* the archives handed to each background task
    tasks,            \* per job: the coroutines process_single_document_async
    semaphore,        \* per job: value of asyncio.Semaphore
    all_results,      \* per job: what asyncio.gather returned
    all_data_for_df,  \* per job: rows built from all_results
    csv_files,        \* OUTPUT_DIR: path -> table on disk, or NoFile
    api_concurrency_limit,       \* config.API_CONCURRENCY_LIMIT
    number_of_json_retries,      \* processing.number_of_json_retries
    exponential_backoff_factor,  \* utils.exponential_backoff_factor
    unit,             \* one coroutine process_single_document_async, run alone
    delay,            \* its client call's local `delay`
    total_wait,       \* its client call's local `total_wait`, as decided last
    meter,            \* counters of what that coroutine has done
    outcomes,         \* a list of results handed to the row loop on its own
    table,            \* the data frame built from `outcomes`
    previous          \* the data frame an earlier run built from `outcomes`

job_vars == <<processed_jobs, pc, file_contents, tasks, semaphore, all_results,
              all_data_for_df, csv_files>>
config_vars == <<api_concurrency_limit, number_of_json_retries,
                 exponential_backoff_factor>>
unit_vars == <<unit, delay, total_wait, meter>>
table_vars == <<outcomes, table, previous>>

\* What the actions of the service leave alone: the configuration, and the
\* coroutine and the row loop that are run on their own further below.
other_vars == <<config_vars, unit_vars, table_vars>>

vars == <<job_vars, other_vars>>

Absent == "absent"

\* os.path.join(config.OUTPUT_DIR, f"cheque_extraction_results_{job_id}.csv"):
\* one path per job id; the path of no job stands for a missing key.
CsvPath(job_id) == job_id
NoPath == CsvPath(0)
NoFile == [exists |-> FALSE, rows |-> <<>>]
CsvFile(rows) == [exists |-> TRUE, rows |-> rows]

Respond(op, job_id, code, detail, path) ==
    [op |-> op, job_id |-> job_id, code |-> code, detail |-> detail, path |-> path]

\* ---- uploaded files -----------------------------------------------------
\* File names are sequences of characters.
DotZip == <<".", "z", "i", "p">>
NoName == <<>>
LowerZip == <<"a">> \o DotZip
UpperZip == <<"B", ".", "Z", "I", "P">>
Png == <<"c", ".", "p", "n", "g">>
ZipPng == <<"d">> \o DotZip \o <<".", "p", "n", "g">>

\* The names of the files of one upload, in the order of the request
\* (File(...) requires at least one file).
NameLists ==
    { <<LowerZip>>, <<UpperZip>>, <<Png>>, <<NoName>>,
      <<LowerZip, UpperZip>>, <<LowerZip, Png>>, <<Png, LowerZip>>,
      <<UpperZip, ZipPng>>, <<LowerZip, NoName>> }

\* str.lower and str.endswith.
LowerChar(c) ==
    CASE c = "B" -> "b" [] c = "Z" -> "z" [] c = "I" -> "i" [] c = "P" -> "p"
      [] OTHER -> c
lower(name) == [n \in 1..Len(name) |-> LowerChar(name[n])]
endswith(name, suffix) ==
    /\ Len(name) >= Len(suffix)
    /\ SubSeq(name, Len(name) - Len(suffix) + 1, Len(name)) = suffix

\* The negation of the test of line 50.
Accepted(filename) == filename # <<>> /\ endswith(lower(filename), DotZip)

\* Faulty variant: only the name of the first file is tested.
FirstAccepted(file_names) == Accepted(file_names[1])

\* The loop of lines 49-53 reaches its end without raising.
AllAccepted(file_names) ==
    \A n \in 1..Len(file_names) : Accepted(file_names[n])

\* The files of one upload, as far as the program looks at them: their
\* names, does every archive open, and how many eligible images do the
\* archives that open hold in all.
Uploads ==
    [file_names : NameLists, readable : BOOLEAN, images : 0..MaxTotalUnits]

\* What the handler has of an upload after the loop of lines 49-53.
Received(upload) ==
    [zip_names |-> AllAccepted(upload.file_names),
     readable |-> upload.readable, images |-> upload.images]

NoFiles == [zip_names |-> TRUE, readable |-> TRUE, images |-> 0]

\* Eligible images already handed to the service (bounds the inputs).
UnitsOf(j) ==
    IF pc[j] = "scheduled" THEN file_contents[j].images
    ELSE IF j \in DOMAIN processed_jobs THEN processed_jobs[j].total_files
    ELSE 0

RECURSIVE SumOver(_)
SumOver(S) ==
    IF S = {} THEN 0
    ELSE LET j == CHOOSE k \in S : TRUE IN UnitsOf(j) + SumOver(S \ {j})

UnitsSubmitted == SumOver(Jobs)

\* ---- main.py: the registry and its handlers -----------------------------
\* Faulty variant: the record is registered as already processing.
NewJobRecordProcessing(job_id) ==
    [job_id |-> job_id, status |-> "processing", total_files |-> 0,
     processed_files |-> 0, progress_percentage |-> 0,
     output_file_path |-> NoPath, error_message |-> Absent,
     end_time |-> FALSE]

NewJobRecord(job_id) ==
    [job_id |-> job_id, status |-> "queued", total_files |-> 0,
     processed_files |-> 0, progress_percentage |-> 0,
     output_file_path |-> NoPath, error_message |-> Absent,
     end_time |-> FALSE]

\* The event loop is between two awaits of every coroutine.
SyncTail == {"aggregated", "written", "marked"}
AtAwait == \A j \in Jobs : pc[j] \notin SyncTail

\* uuid4: an id no job has.
FreshId == CHOOSE j \in Jobs : j \notin DOMAIN processed_jobs

Register(job_id, rec) ==
    [k \in DOMAIN processed_jobs \cup {job_id} |->
        IF k = job_id THEN rec ELSE processed_jobs[k]]

\* The response of POST /upload to `files` when the new job gets `job_id`.
UploadResponse(files, job_id) ==
    IF ~files.zip_names
    THEN Respond("upload", job_id, 400, "Invalid file type", NoPath)
    ELSE Respond("upload", job_id, 200, "Job successfully queued", NoPath)

\* POST /upload of `upload`: HTTPException 400 is raised in the loop, or the
\* record is registered and the background task is scheduled.
Upload(upload) ==
    /\ AtAwait
    /\ DOMAIN processed_jobs # Jobs
    /\ upload.images + UnitsSubmitted <= MaxTotalUnits
    /\ LET files == Received(upload) IN
        IF UploadResponse(files, FreshId).code = 400
        THEN UNCHANGED <<processed_jobs, pc, file_contents>>
        ELSE LET job_id == FreshId IN
             /\ processed_jobs' = Register(job_id, NewJobRecord(job_id))
             /\ file_contents' = [file_contents EXCEPT ![job_id] = files]
             /\ pc' = [pc EXCEPT ![job_id] = "scheduled"]
    /\ UNCHANGED <<tasks, semaphore, all_results, all_data_for_df, csv_files>>
    /\ UNCHANGED other_vars

upload_files_for_processing == \E upload \in Uploads : Upload(upload)

\* The read handlers answer from the registry and write nothing.
StatusResponse(job_id) ==
    IF job_id \notin DOMAIN processed_jobs
    THEN Respond("status", job_id, 404, "Job not found.", NoPath)
    ELSE Respond("status", job_id, 200, processed_jobs[job_id].status,
                 processed_jobs[job_id].output_file_path)

\* Faulty variant: the registry hands out a fresh record for an id it does
\* not know (as a defaultdict or setdefault would).
get_job_status_setdefault(job_id) ==
    /\ AtAwait
    /\ IF job_id \in DOMAIN processed_jobs
       THEN UNCHANGED processed_jobs
       ELSE processed_jobs' = Register(job_id, NewJobRecord(job_id))
    /\ UNCHANGED <<pc, file_contents, tasks, semaphore, all_results,
                   all_data_for_df, csv_files>>
    /\ UNCHANGED other_vars

get_job_status(job_id) ==
    /\ AtAwait
    /\ StatusResponse(job_id).code \in {200, 404}
    /\ UNCHANGED vars

\* Faulty variant: the status check of line 91 is missing.
DownloadResponseAnyStatus(job_id) ==
    IF job_id \notin DOMAIN processed_jobs
    THEN Respond("download", job_id, 404, "Job not found.", NoPath)
    ELSE IF processed_jobs[job_id].output_file_path = NoPath
            \/ ~csv_files[processed_jobs[job_id].output_file_path].exists
    THEN Respond("download", job_id, 404, "Output file not found on server.", NoPath)
    ELSE Respond("download", job_id, 200, "text/csv",
                 processed_jobs[job_id].output_file_path)

DownloadResponse(job_id) ==
    IF job_id \notin DOMAIN processed_jobs
    THEN Respond("download", job_id, 404, "Job not found.", NoPath)
    ELSE IF processed_jobs[job_id].status # "completed"
    THEN Respond("download", job_id, 400, "Job is not complete.", NoPath)
    ELSE IF processed_jobs[job_id].output_file_path = NoPath
            \/ ~csv_files[processed_jobs[job_id].output_file_path].exists
    THEN Respond("download", job_id, 404, "Output file not found on server.", NoPath)
    ELSE Respond("download", job_id, 200, "text/csv",
                 processed_jobs[job_id].output_file_path)

download_result_file(job_id) ==
    /\ AtAwait
    /\ DownloadResponse(job_id).code \in {200, 400, 404}
    /\ UNCHANGED vars

\* ---- processing.py: the orchestrator, up to the batch run ---------------
Update(job_id, rec) == [processed_jobs EXCEPT ![job_id] = rec]

\* except Exception: job_status_dict.update(status failed, error_message, end_time)
MarkFailed(rec, msg) ==
    [rec EXCEPT !.status = "failed", !.error_message = msg, !.end_time = TRUE]

\* Faulty variant: the update of line 96 leaves total_files out.
MarkProcessingWithoutTotal(rec, total_files) ==
    [rec EXCEPT !.status = "processing",
                !.processed_files = 0, !.progress_percentage = 0]

\* Faulty variant: the update of line 96 leaves the status out.
MarkProcessingKeepsStatus(rec, total_files) ==
    [rec EXCEPT !.total_files = total_files,
                !.processed_files = 0, !.progress_percentage = 0]

\* job_status_dict.update(status processing, total_files, processed_files 0, ...)
MarkProcessing(rec, total_files) ==
    [rec EXCEPT !.status = "processing", !.total_files = total_files,
                !.processed_files = 0, !.progress_percentage = 0]

NoResult == [error |-> Absent, fields |-> Absent, file_path |-> NoPath]

\* A coroutine process_single_document_async(client, semaphore, file_info),
\* created and not yet run.  file_info['path'] is the unit's place in the
\* work list.
NewTask(path) ==
    [st |-> "new", path |-> path, attempt |-> 0, i |-> 0, result |-> NoResult]

\* Faulty variant: an archive that does not open is skipped and the images of
\* the other archives are processed.
StartJobSkipsBadZip(j) ==
    /\ AtAwait
    /\ pc[j] = "scheduled"
    /\ LET total_files == file_contents[j].images IN
       /\ processed_jobs' = Update(j, MarkProcessing(processed_jobs[j], total_files))
       /\ semaphore' = [semaphore EXCEPT ![j] = api_concurrency_limit]
       /\ tasks' = [tasks EXCEPT ![j] = [u \in 1..total_files |-> NewTask(u)]]
       /\ pc' = [pc EXCEPT ![j] = "gather"]
    /\ file_contents' = [file_contents EXCEPT ![j] = NoFiles]
    /\ UNCHANGED <<all_results, all_data_for_df, csv_files>>
    /\ UNCHANGED other_vars

\* The background task runs from its start to `await asyncio.gather`.
StartJob(j) ==
    /\ AtAwait
    /\ pc[j] = "scheduled"
    /\ IF ~file_contents[j].readable
       THEN \* zipfile.BadZipFile, caught by the handler of line 146
            /\ processed_jobs' = Update(j, MarkFailed(processed_jobs[j], "BadZipFile"))
            /\ pc' = [pc EXCEPT ![j] = "returned"]
            /\ UNCHANGED <<tasks, semaphore>>
       ELSE LET total_files == file_contents[j].images IN
            /\ processed_jobs' = Update(j, MarkProcessing(processed_jobs[j], total_files))
            /\ semaphore' = [semaphore EXCEPT ![j] = api_concurrency_limit]
            /\ tasks' = [tasks EXCEPT ![j] = [u \in 1..total_files |-> NewTask(u)]]
            /\ pc' = [pc EXCEPT ![j] = "gather"]
    /\ file_contents' = [file_contents EXCEPT ![j] = NoFiles]
    /\ UNCHANGED <<all_results, all_data_for_df, csv_files>>
    /\ UNCHANGED other_vars

\* ---- utils.py: the endpoint client ---------------------------------------
\* What one `await client.post(...)` can come back with.
Replies ==
    {"network_error",     \* httpx.RequestError
     "status_5xx", "status_429", "status_4xx",   \* raise_for_status
     "body_not_json",     \* response.json() raises json.JSONDecodeError
     "envelope_invalid",  \* APIResponseBody.model_validate raises
     "no_content",        \* no choices, or an empty message content
     "text_malformed",    \* content from which json.loads cannot decode
     "text_not_object",   \* content that decodes to a list, number, string, null
     "fields_absent",     \* a JSON object without the key extracted_fields
     "fields_not_list",   \* a JSON object whose extracted_fields is no list
     "valid"}             \* a JSON object with a list of field entries

\* Faulty variant: every HTTPStatusError is retried.
RetryableAnyStatus(r) ==
    r \in {"network_error", "status_5xx", "status_429", "status_4xx"}

\* Only retry on server errors, rate limits, or network errors.
Retryable(r) == r \in {"network_error", "status_5xx", "status_429"}

\* Faulty variant: a transient fault is raised at once, without a retry.
ClientStepNoRetry(i, r) ==
    IF Retryable(r) THEN "raise"
    ELSE IF r \in {"status_4xx", "envelope_invalid", "no_content"} THEN "raise"
    ELSE IF r = "body_not_json" THEN "raise_json_decode_error"
    ELSE "return"

\* Faulty variant: the last attempt is taken to be index max_retries.
ClientStepOneMore(i, r) ==
    IF Retryable(r)
    THEN IF i = API_RETRIES THEN "raise" ELSE "sleep"
    ELSE IF r \in {"status_4xx", "envelope_invalid", "no_content"} THEN "raise"
    ELSE IF r = "body_not_json" THEN "raise_json_decode_error"
    ELSE "return"

\* One pass of the loop `for i in range(max_retries)` once the reply r of
\* attempt i is known: the client returns the content, sleeps before the
\* next attempt, or raises.
ClientStep(i, r) ==
    IF Retryable(r)
    THEN IF i = API_RETRIES - 1 THEN "raise" ELSE "sleep"
    ELSE IF r \in {"status_4xx", "envelope_invalid", "no_content"} THEN "raise"
    ELSE IF r = "body_not_json" THEN "raise_json_decode_error"
    ELSE "return"

\* ---- processing.py: process_single_document_async ------------------------
\* Faulty variant: the error record is returned without its file_path.
ErrorRecordNoPath(msg, file_path) ==
    [error |-> msg, fields |-> Absent, file_path |-> NoPath]

ErrorRecord(msg, file_path) ==
    [error |-> msg, fields |-> Absent, file_path |-> file_path]

\* result = json.loads(json_text); ...; result['file_path'] = file_path
SuccessRecord(fields, file_path) ==
    [error |-> Absent, fields |-> fields, file_path |-> file_path]

\* The coroutine returns `result`; its frame (attempt, i) is gone.
Return(t, result) ==
    [st |-> "done", path |-> t.path, attempt |-> 0, i |-> 0, result |-> result]

\* Faulty variant: an exception of the client is handled like undecodable
\* text, by the JSON retry loop.
ExtractorStepRetriesRaise(t, r) ==
    LET c == ClientStep(t.i, r) IN
    IF c = "sleep" THEN [t EXCEPT !.st = "backoff"]
    ELSE IF c \in {"raise", "raise_json_decode_error"} \/ r = "text_malformed"
    THEN IF t.attempt < JSON_SLEEP_BELOW
         THEN [t EXCEPT !.st = "json_sleep"]
         ELSE Return(t, ErrorRecord("JSON Decode Error after retries", t.path))
    ELSE IF r = "text_not_object"
    THEN Return(t, ErrorRecord("exception", t.path))
    ELSE IF r = "fields_absent"
    THEN Return(t, SuccessRecord("absent", t.path))
    ELSE IF r = "fields_not_list"
    THEN Return(t, SuccessRecord("not_list", t.path))
    ELSE Return(t, SuccessRecord("list", t.path))

\* Faulty variant: the JSON retry loop sleeps after its first attempt only and
\* gives up at the second.
ExtractorStepSleepsOnce(t, r) ==
    LET c == ClientStep(t.i, r) IN
    IF c = "sleep" THEN [t EXCEPT !.st = "backoff"]
    ELSE IF c = "raise"
    THEN Return(t, ErrorRecord("exception", t.path))
    ELSE IF c = "raise_json_decode_error" \/ r = "text_malformed"
    THEN IF t.attempt < JSON_SLEEP_BELOW - 1
         THEN [t EXCEPT !.st = "json_sleep"]
         ELSE Return(t, ErrorRecord("JSON Decode Error after retries", t.path))
    ELSE IF r = "text_not_object"
    THEN Return(t, ErrorRecord("exception", t.path))
    ELSE IF r = "fields_absent"
    THEN Return(t, SuccessRecord("absent", t.path))
    ELSE IF r = "fields_not_list"
    THEN Return(t, SuccessRecord("not_list", t.path))
    ELSE Return(t, SuccessRecord("list", t.path))

\* Faulty variant: the client's sleep is not awaited, the loop goes straight on.
ExtractorStepNoSleep(t, r) ==
    LET c == ClientStep(t.i, r) IN
    IF c = "sleep" THEN [t EXCEPT !.st = "request", !.i = @ + 1]
    ELSE IF c = "raise"
    THEN Return(t, ErrorRecord("exception", t.path))
    ELSE IF c = "raise_json_decode_error" \/ r = "text_malformed"
    THEN IF t.attempt < JSON_SLEEP_BELOW
         THEN [t EXCEPT !.st = "json_sleep"]
         ELSE Return(t, ErrorRecord("JSON Decode Error after retries", t.path))
    ELSE IF r = "text_not_object"
    THEN Return(t, ErrorRecord("exception", t.path))
    ELSE IF r = "fields_absent"
    THEN Return(t, SuccessRecord("absent", t.path))
    ELSE IF r = "fields_not_list"
    THEN Return(t, SuccessRecord("not_list", t.path))
    ELSE Return(t, SuccessRecord("list", t.path))

\* What the body of the try block does with the reply r of attempt i of the
\* client, in the pass `attempt` of the JSON retry loop: the next position
\* of the coroutine and, when it returns, its result.
ExtractorStep(t, r) ==
    LET c == ClientStep(t.i, r) IN
    IF c = "sleep" THEN [t EXCEPT !.st = "backoff"]
    ELSE IF c = "raise"
    THEN Return(t, ErrorRecord("exception", t.path))
    ELSE IF c = "raise_json_decode_error" \/ r = "text_malformed"
    THEN IF t.attempt < JSON_SLEEP_BELOW
         THEN [t EXCEPT !.st = "json_sleep"]
         ELSE Return(t, ErrorRecord("JSON Decode Error after retries", t.path))
    ELSE IF r = "text_not_object"
    THEN Return(t, ErrorRecord("exception", t.path))
    ELSE IF r = "fields_absent"
    THEN Return(t, SuccessRecord("absent", t.path))
    ELSE IF r = "fields_not_list"
    THEN Return(t, SuccessRecord("not_list", t.path))
    ELSE Return(t, SuccessRecord("list", t.path))

InFlight(j) == { u \in DOMAIN tasks[j] : tasks[j][u].st \in {"request", "backoff", "json_sleep"} }

\* Faulty variant: the coroutine does not wait for the semaphore.
AcquireNoSemaphore(j, u) ==
    /\ AtAwait
    /\ pc[j] = "gather"
    /\ u \in DOMAIN tasks[j]
    /\ tasks[j][u].st = "new"
    /\ tasks' = [tasks EXCEPT ![j][u].st = "request"]
    /\ UNCHANGED <<processed_jobs, pc, file_contents, semaphore, all_results,
                   all_data_for_df, csv_files>>
    /\ UNCHANGED other_vars

\* Faulty variant: one semaphore is shared by all jobs (created at module
\* level), so that a slot held in any job counts against every job.
AcquireSharedSemaphore(j, u) ==
    /\ AtAwait
    /\ pc[j] = "gather"
    /\ u \in DOMAIN tasks[j]
    /\ tasks[j][u].st = "new"
    /\ semaphore[j] > 0
    /\ \A k \in Jobs : InFlight(k) # {} => k = j
    /\ semaphore' = [semaphore EXCEPT ![j] = @ - 1]
    /\ tasks' = [tasks EXCEPT ![j][u].st = "request"]
    /\ UNCHANGED <<processed_jobs, pc, file_contents, all_results,
                   all_data_for_df, csv_files>>
    /\ UNCHANGED other_vars

\* `async with semaphore` is entered; the coroutine runs to its first
\* `await client.post`.
Acquire(j, u) ==
    /\ AtAwait
    /\ pc[j] = "gather"
    /\ u \in DOMAIN tasks[j]
    /\ tasks[j][u].st = "new"
    /\ semaphore[j] > 0
    /\ semaphore' = [semaphore EXCEPT ![j] = @ - 1]
    /\ tasks' = [tasks EXCEPT ![j][u].st = "request"]
    /\ UNCHANGED <<processed_jobs, pc, file_contents, all_results,
                   all_data_for_df, csv_files>>
    /\ UNCHANGED other_vars

\* Faulty variant: the slot is given back whenever the coroutine stops sending,
\* also for a sleep.
ReleasedDuringSleep(j, t) ==
    IF t.st \in {"done", "backoff", "json_sleep"}
    THEN semaphore[j] + 1 ELSE semaphore[j]

\* Faulty variant: the slot is never given back.
ReleasedNever(j, t) == semaphore[j]

\* The semaphore is released when the coroutine leaves the `async with`.
Released(j, t) == IF t.st = "done" THEN semaphore[j] + 1 ELSE semaphore[j]

\* Faulty variant: the sleeps block the event loop (time.sleep), so that no
\* response is handled while a coroutine sleeps.
ReplyBlockedBySleep(j, u, r) ==
    /\ AtAwait
    /\ pc[j] = "gather"
    /\ u \in DOMAIN tasks[j]
    /\ tasks[j][u].st = "request"
    /\ \A k \in Jobs : \A v \in DOMAIN tasks[k] :
          tasks[k][v].st \notin {"backoff", "json_sleep"}
    /\ LET t == ExtractorStep(tasks[j][u], r) IN
        /\ tasks' = [tasks EXCEPT ![j][u] = t]
        /\ semaphore' = [semaphore EXCEPT ![j] = Released(j, t)]
    /\ UNCHANGED <<processed_jobs, pc, file_contents, all_results,
                   all_data_for_df, csv_files>>
    /\ UNCHANGED other_vars

\* client.post comes back with reply r.
Reply(j, u, r) ==
    /\ AtAwait
    /\ pc[j] = "gather"
    /\ u \in DOMAIN tasks[j]
    /\ tasks[j][u].st = "request"
    /\ LET t == ExtractorStep(tasks[j][u], r) IN
        /\ tasks' = [tasks EXCEPT ![j][u] = t]
        /\ semaphore' = [semaphore EXCEPT ![j] = Released(j, t)]
    /\ UNCHANGED <<processed_jobs, pc, file_contents, all_results,
                   all_data_for_df, csv_files>>
    /\ UNCHANGED other_vars

\* asyncio.sleep(total_wait) of the client ends: the loop
\* `for i in range(max_retries)` goes to its next pass and sends again.
AfterBackoff(t) == [t EXCEPT !.st = "request", !.i = @ + 1]

WakeBackoff(j, u) ==
    /\ AtAwait
    /\ pc[j] = "gather"
    /\ u \in DOMAIN tasks[j]
    /\ tasks[j][u].st = "backoff"
    /\ tasks' = [tasks EXCEPT ![j][u] = AfterBackoff(@)]
    /\ UNCHANGED <<processed_jobs, pc, file_contents, semaphore, all_results,
                   all_data_for_df, csv_files>>
    /\ UNCHANGED other_vars

\* Faulty variant: the attempts of the client are counted across the passes
\* of the JSON retry loop, which share one budget.
AfterJsonSleepSharedBudget(t) ==
    IF t.attempt + 1 < number_of_json_retries
    THEN [t EXCEPT !.st = "request", !.attempt = @ + 1]
    ELSE Return(t, ErrorRecord("Processing failed after all retries.", t.path))

\* asyncio.sleep(1) of the JSON retry loop ends: the next pass of
\* `for attempt in range(number_of_json_retries)` calls the client afresh,
\* or the loop is exhausted and line 72 returns.
AfterJsonSleep(t) ==
    IF t.attempt + 1 < number_of_json_retries
    THEN [t EXCEPT !.st = "request", !.attempt = @ + 1, !.i = 0]
    ELSE Return(t, ErrorRecord("Processing failed after all retries.", t.path))

WakeJson(j, u) ==
    /\ AtAwait
    /\ pc[j] = "gather"
    /\ u \in DOMAIN tasks[j]
    /\ tasks[j][u].st = "json_sleep"
    /\ LET t == AfterJsonSleep(tasks[j][u]) IN
        /\ tasks' = [tasks EXCEPT ![j][u] = t]
        /\ semaphore' = [semaphore EXCEPT ![j] = Released(j, t)]
    /\ UNCHANGED <<processed_jobs, pc, file_contents, all_results,
                   all_data_for_df, csv_files>>
    /\ UNCHANGED other_vars

\* ---- one coroutine on its own: waits and counts ---------------------------
\* The coroutine process_single_document_async of one unit, stepped by the
\* operators above, together with the locals of its client call that decide
\* how long it sleeps, and with counters of its requests, calls and sleeps.
\* It is run for every malformed-output budget up to MaxJsonRetries and for
\* every backoff factor of Factors.
Factors == {1, 2, 3}
Seconds(n) == n + n

RECURSIVE Pow(_, _)
Pow(b, k) == IF k = 0 THEN 1 ELSE b * Pow(b, k - 1)

\* e.response.headers.get('Retry-After'): no header, an empty one, numerals,
\* and a value int() does not take (an HTTP date).
RetryAfterHeaders == {Absent, "", "0", "2", "-1", "Wed, 21 Oct 2026 07:28:00 GMT"}

\* int(retry_after_header) returns a number or raises ValueError.
IntParses(h) == h \in {"0", "2", "-1"}
IntOf(h) == CASE h = "0" -> 0 [] h = "2" -> 2 [] h = "-1" -> 0 - 1

\* `if retry_after_header:` and the int() that follows give the hint.
HintUsed(r, h) == r = "status_429" /\ h \notin {Absent, ""} /\ IntParses(h)

\* random.uniform(0, 1): a wait of at least 0 s and less than 1 s.
Jitters == {0, 1}

NoWait == [wait_time |-> 0, jitter |-> 0]

\* Faulty variant: the Retry-After header is not looked at.
BackoffWaitIgnoresHint(d, r, h, jitter) == [wait_time |-> d, jitter |-> jitter]

\* wait_time = delay, or the Retry-After value of a 429; total_wait is
\* wait_time + jitter, kept here as its two terms.
BackoffWait(d, r, h, jitter) ==
    [wait_time |-> IF HintUsed(r, h) THEN Seconds(IntOf(h)) ELSE d,
     jitter |-> jitter]

ZeroMeter ==
    [requests |-> 0,      \* requests sent by the client call under way
     sent |-> 0,          \* requests sent for the unit in all
     answered |-> 0,      \* requests whose response or error is known
     sleeps |-> 0,        \* backoff sleeps of the client call under way
     hinted |-> FALSE,    \* one of those sleeps took its wait from a hint
     json_sleeps |-> 0,   \* asyncio.sleep(1) of the JSON retry loop
     json_wait |-> 0,     \* what the last of them was called with
     returned |-> <<>>,   \* per finished client call, the reply that ended it
     last |-> Absent,     \* the reply received last, and its Retry-After
     hint |-> Absent]

\* `async with semaphore` is entered (the semaphore is free) and the first
\* client call sends its first request.
UnitAcquire ==
    /\ unit.st = "new"
    /\ unit' = [unit EXCEPT !.st = "request"]
    /\ delay' = initial_delay
    /\ meter' = [meter EXCEPT !.requests = 1, !.sent = @ + 1]
    /\ UNCHANGED <<total_wait, job_vars, config_vars, table_vars>>

\* client.post comes back with reply r, carrying Retry-After header h when
\* r is a 429; jitter is what random.uniform gives if the client sleeps.
UnitReply(r, h, jitter) ==
    /\ unit.st = "request"
    /\ r # "status_429" => h = Absent
    /\ LET t == ExtractorStep(unit, r) IN
        /\ unit' = t
        /\ IF t.st = "backoff"
           THEN total_wait' = BackoffWait(delay, r, h, jitter)
           ELSE jitter = 0 /\ UNCHANGED total_wait
        /\ meter' = [meter EXCEPT
              !.answered = @ + 1,
              !.last = r,
              !.hint = h,
              !.sleeps = IF t.st = "backoff" THEN @ + 1 ELSE @,
              !.hinted = IF t.st = "backoff" THEN @ \/ HintUsed(r, h) ELSE @,
              !.json_sleeps = IF t.st = "json_sleep" THEN @ + 1 ELSE @,
              !.json_wait = IF t.st = "json_sleep"
                            THEN Seconds(JSON_SLEEP_SECONDS) ELSE @,
              !.returned = IF t.st = "backoff" THEN @ ELSE Append(@, r)]
    /\ UNCHANGED <<delay, job_vars, config_vars, table_vars>>

\* asyncio.sleep(total_wait) ends; delay *= exponential_backoff_factor and
\* the next request is sent.
UnitWakeBackoff ==
    /\ unit.st = "backoff"
    /\ unit' = AfterBackoff(unit)
    /\ delay' = delay * exponential_backoff_factor
    /\ meter' = [meter EXCEPT !.requests = @ + 1, !.sent = @ + 1]
    /\ UNCHANGED <<total_wait, job_vars, config_vars, table_vars>>

\* asyncio.sleep(1) ends: a fresh client call starts with delay =
\* initial_delay and sends its first request, or the loop is exhausted.
UnitWakeJson ==
    /\ unit.st = "json_sleep"
    /\ LET t == AfterJsonSleep(unit) IN
        /\ unit' = t
        /\ IF t.st = "request"
           THEN /\ delay' = initial_delay
                /\ meter' = [meter EXCEPT !.requests = 1, !.sent = @ + 1,
                                          !.sleeps = 0, !.hinted = FALSE]
           ELSE UNCHANGED <<delay, meter>>
    /\ UNCHANGED <<total_wait, job_vars, config_vars, table_vars>>

UnitNext ==
    \/ UnitAcquire
    \/ \E r \in Replies, h \in RetryAfterHeaders, jitter \in Jitters :
          UnitReply(r, h, jitter)
    \/ UnitWakeBackoff
    \/ UnitWakeJson

\* ---- processing.py: after the batch run -----------------------------------
\* row = {'folder_name': ..., 'filepath': ...}; row['error'] when the result
\* has one.
RowOf(result) == [filepath |-> result.file_path, error |-> result.error]

\* `if not result or 'file_path' not in result: continue`
HasRow(result) == result.file_path # NoPath

\* `for field in result.get('extracted_fields', [])` raises TypeError (or
\* field.get raises AttributeError) when the value is no list of entries.
RowRaises(result) == HasRow(result) /\ result.fields = "not_list"

RECURSIVE BuildRows(_)
BuildRows(results) ==
    IF results = <<>> THEN <<>>
    ELSE IF HasRow(Head(results))
         THEN <<RowOf(Head(results))>> \o BuildRows(Tail(results))
         ELSE BuildRows(Tail(results))

\* Faulty variant: the results are collected last task first.
GatheredReversed(j) ==
    [u \in DOMAIN tasks[j] |-> tasks[j][Len(tasks[j]) + 1 - u].result]

\* asyncio.gather(*tasks): the results, in the order of the tasks.
Gathered(j) == [u \in DOMAIN tasks[j] |-> tasks[j][u].result]

\* The locals of the background task die when it returns.
DropLocals(j) ==
    /\ tasks' = [tasks EXCEPT ![j] = <<>>]
    /\ all_results' = [all_results EXCEPT ![j] = <<>>]
    /\ all_data_for_df' = [all_data_for_df EXCEPT ![j] = <<>>]

\* The handler of line 146 runs and the background task returns.
Fail(j, msg) ==
    /\ processed_jobs' = Update(j, MarkFailed(processed_jobs[j], msg))
    /\ pc' = [pc EXCEPT ![j] = "returned"]
    /\ DropLocals(j)

\* gather returns once every coroutine has returned; the rows are built.
GatherReturn(j) ==
    /\ AtAwait
    /\ pc[j] = "gather"
    /\ \A u \in DOMAIN tasks[j] : tasks[j][u].st = "done"
    /\ IF \E u \in DOMAIN tasks[j] : RowRaises(tasks[j][u].result)
       THEN Fail(j, "TypeError")
       ELSE /\ all_results' = [all_results EXCEPT ![j] = Gathered(j)]
            /\ all_data_for_df' = [all_data_for_df EXCEPT ![j] = BuildRows(Gathered(j))]
            /\ pc' = [pc EXCEPT ![j] = "aggregated"]
            /\ UNCHANGED <<processed_jobs, tasks>>
    /\ UNCHANGED <<file_contents, semaphore, csv_files>>
    /\ UNCHANGED other_vars

\* What df.to_csv can leave at the path when it raises: nothing (the output
\* location is unwritable) or the rows written before the fault.
PartialFiles(rows) ==
    {NoFile} \cup { CsvFile(SubSeq(rows, 1, k)) : k \in 0..(Len(rows) - 1) }

\* Faulty variant: the status update runs without the table having been written.
WriteCsvSkipped(j) ==
    /\ pc[j] = "aggregated"
    /\ pc' = [pc EXCEPT ![j] = "written"]
    /\ UNCHANGED <<processed_jobs, tasks, all_results, all_data_for_df,
                   csv_files, file_contents, semaphore>>
    /\ UNCHANGED other_vars

\* Faulty variant: a table with no rows is refused by the writer, which raises.
WriteCsvRaisesOnEmpty(j) ==
    /\ pc[j] = "aggregated"
    /\ \/ /\ all_data_for_df[j] # <<>>
          /\ csv_files' = [csv_files EXCEPT ![CsvPath(j)] = CsvFile(all_data_for_df[j])]
          /\ pc' = [pc EXCEPT ![j] = "written"]
          /\ UNCHANGED <<processed_jobs, tasks, all_results, all_data_for_df>>
       \/ /\ all_data_for_df[j] = <<>>
          /\ UNCHANGED csv_files
          /\ Fail(j, "EmptyDataError")
       \/ /\ \E f \in PartialFiles(all_data_for_df[j]) :
                csv_files' = [csv_files EXCEPT ![CsvPath(j)] = f]
          /\ Fail(j, "OSError")
    /\ UNCHANGED <<file_contents, semaphore>>
    /\ UNCHANGED other_vars

\* df.to_csv(persistent_csv_path): the table is written, or OSError is raised
\* and the handler of line 146 runs.
WriteCsv(j) ==
    /\ pc[j] = "aggregated"
    /\ \/ /\ csv_files' = [csv_files EXCEPT ![CsvPath(j)] = CsvFile(all_data_for_df[j])]
          /\ pc' = [pc EXCEPT ![j] = "written"]
          /\ UNCHANGED <<processed_jobs, tasks, all_results, all_data_for_df>>
       \/ /\ \E f \in PartialFiles(all_data_for_df[j]) :
                csv_files' = [csv_files EXCEPT ![CsvPath(j)] = f]
          /\ Fail(j, "OSError")
    /\ UNCHANGED <<file_contents, semaphore>>
    /\ UNCHANGED other_vars

\* job_status_dict.update(status completed, output_file_path, end_time, ...)
MarkCompleted(rec, path) ==
    [rec EXCEPT !.status = "completed", !.output_file_path = path, !.end_time = TRUE]

SetCompleted(j) ==
    /\ pc[j] = "written"
    /\ processed_jobs' = Update(j, MarkCompleted(processed_jobs[j], CsvPath(j)))
    /\ pc' = [pc EXCEPT ![j] = "marked"]
    /\ UNCHANGED <<file_contents, tasks, semaphore, all_results, all_data_for_df,
                   csv_files>>
    /\ UNCHANGED other_vars

\* The `with tempfile.TemporaryDirectory(...)` block is left inside the try:
\* the directory is removed, or its removal raises and the handler of
\* line 146 runs.
ExitTempDir(j) ==
    /\ pc[j] = "marked"
    /\ \/ /\ pc' = [pc EXCEPT ![j] = "returned"]
          /\ DropLocals(j)
          /\ UNCHANGED processed_jobs
       \/ Fail(j, "OSError")
    /\ UNCHANGED <<file_contents, semaphore, csv_files>>
    /\ UNCHANGED other_vars

\* ---- the row loop and the column derivation on their own ------------------
\* Lines 107-132 are a function of all_results and config.FIELDS.  Here they
\* are computed in full, cell by cell, on every list of results of up to
\* MaxOutcomes results.

\* config.FIELDS, the names in their declared order.
FIELDS ==
    <<"bank_name", "bank_branch", "account_number", "date", "payee_name",
      "amount_words", "amount_numeric", "currency", "issuer_name", "IFSC",
      "micr_scan_instrument_number", "micr_scan_payee_details",
      "micr_scan_micr_acno", "micr_scan_instrument_type">>

\* The column named f"{name}{suffix}".
Col(name, suffix) == <<name, suffix>>
base_cols == <<Col("folder_name", ""), Col("filepath", "")>>

\* A cell holding None, and a cell the data frame fills in (NaN).
None == "None"
NaN == "NaN"

\* One entry of a reply's extracted_fields; Absent stands for a missing key.
Entry(field_name, value, confidence, reason) ==
    [field_name |-> field_name, value |-> value, confidence |-> confidence,
     reason |-> reason]

\* The entries the results are built from: a configured field with and
\* without confidence and reason, a second configured field, a name that is
\* not configured, the name "error", the name "filepath", and an entry
\* without a name.
AmountScored == Entry("amount_numeric", "1500.00", "0.97", Absent)
AmountBare == Entry("amount_numeric", "1500.00", Absent, Absent)
AmountIllegible == Entry("amount_numeric", Absent, Absent, "illegible")
DateSmudged == Entry("date", "2024-01-31", "0.5", "smudged")
Signature == Entry("signature", "present", "0.9", "unclear")
NamedError == Entry("error", "none", Absent, Absent)
NamedFilepath == Entry("filepath", "front.png", Absent, Absent)
Nameless == Entry(Absent, "stray", "0.9", Absent)

FieldEntries ==
    {AmountScored, AmountBare, AmountIllegible, DateSmudged, Signature,
     NamedError, NamedFilepath, Nameless}

\* result['extracted_fields']: no entry, one entry, or two: two fields in
\* the reverse of their declared order, and one field twice.
EntryLists ==
    {<<>>} \cup { <<e>> : e \in FieldEntries }
           \cup {<<AmountScored, DateSmudged>>, <<AmountBare, AmountScored>>}

\* The results process_single_document_async can return for the unit at
\* place `path`: an error record, or the decoded reply with its file_path.
OutcomesAt(path) ==
    {[error |-> "exception", fields |-> "absent", entries |-> <<>>, file_path |-> path],
     [error |-> Absent, fields |-> "absent", entries |-> <<>>, file_path |-> path],
     [error |-> Absent, fields |-> "not_list", entries |-> <<>>, file_path |-> path]}
    \cup { [error |-> Absent, fields |-> "list", entries |-> es, file_path |-> path] :
              es \in EntryLists }

\* all_results of n units: one result per unit, in the order of the units.
RECURSIVE OutcomeListsOf(_)
OutcomeListsOf(n) ==
    IF n = 0 THEN {<<>>}
    ELSE { Append(rs, o) : rs \in OutcomeListsOf(n - 1), o \in OutcomesAt(n) }

OutcomeLists == UNION { OutcomeListsOf(n) : n \in 0..MaxOutcomes }

\* row[key] = value
Put(row, key, value) ==
    [c \in DOMAIN row \cup {key} |-> IF c = key THEN value ELSE row[c]]

\* field.get(key)
Get(cell) == IF cell = Absent THEN None ELSE cell

\* The body of `for field in result.get('extracted_fields', [])`.
RowWithField(row, field) ==
    IF field.field_name = Absent THEN row
    ELSE LET valued == Put(row, Col(field.field_name, ""), Get(field.value))
             with_conf == Put(valued, Col(field.field_name, "_conf"),
                              Get(field.confidence))
         IN  IF field.reason # Absent
             THEN Put(with_conf, Col(field.field_name, "_reason"), field.reason)
             ELSE with_conf

RECURSIVE RowWithFields(_, _)
RowWithFields(row, entries) ==
    IF entries = <<>> THEN row
    ELSE RowWithFields(RowWithField(row, Head(entries)), Tail(entries))

\* info.filename of the unit at place n of the work list, as its segments:
\* an image at the top of its archive, one in a folder, one two folders deep.
PathOf(n) ==
    CASE n = 1 -> <<"cheque_1.png">>
      [] n = 2 -> <<"batch_a", "cheque_2.png">>
      [] OTHER -> <<"scans", "batch_b", "cheque_3.png">>

\* os.path.basename, os.path.dirname
basename(path) == IF path = <<>> THEN "" ELSE path[Len(path)]
dirname(path) == SubSeq(path, 1, Len(path) - 1)

\* os.path.basename(os.path.dirname(result['file_path'])) or "root"
folder_name(path) ==
    IF basename(dirname(path)) = "" THEN "root" ELSE basename(dirname(path))

\* row = {'folder_name': ..., 'filepath': ...}; the error; the fields.
FullRow(result) ==
    LET identity == Put(Put(<<>>, Col("folder_name", ""),
                            folder_name(PathOf(result.file_path))),
                        Col("filepath", ""), basename(PathOf(result.file_path)))
        with_error == IF result.error # Absent
                      THEN Put(identity, Col("error", ""), result.error)
                      ELSE identity
    IN  RowWithFields(with_error, result.entries)

RECURSIVE FullRows(_)
FullRows(results) ==
    IF results = <<>> THEN <<>>
    ELSE IF HasRow(Head(results))
         THEN <<FullRow(Head(results))>> \o FullRows(Tail(results))
         ELSE FullRows(Tail(results))

\* df.columns of pd.DataFrame(all_data_for_df): every key of every row.
DfColumns(rows) == UNION { DOMAIN rows[k] : k \in 1..Len(rows) }

\* `for field_cfg in config.FIELDS`, from the n-th field on.
RECURSIVE field_cols(_, _)
field_cols(columns, n) ==
    IF n > Len(FIELDS) THEN <<>>
    ELSE LET fname == FIELDS[n] IN
         (IF Col(fname, "") \in columns
          THEN <<Col(fname, "")>>
               \o (IF Col(fname, "_conf") \in columns
                   THEN <<Col(fname, "_conf")>> ELSE <<>>)
               \o (IF Col(fname, "_reason") \in columns
                   THEN <<Col(fname, "_reason")>> ELSE <<>>)
          ELSE <<>>)
         \o field_cols(columns, n + 1)

error_col(columns) ==
    IF Col("error", "") \in columns THEN <<Col("error", "")>> ELSE <<>>

final_columns(columns) == base_cols \o field_cols(columns, 1) \o error_col(columns)

\* df.reindex(columns=[col for col in final_columns if col in df.columns])
Reindex(rows, columns) ==
    LET InDf(col) == col \in DfColumns(rows)
        kept == SelectSeq(columns, InDf)
    IN  [built |-> TRUE, raised |-> FALSE, columns |-> kept,
         rows |-> [k \in 1..Len(rows) |->
                     [n \in 1..Len(kept) |->
                        IF kept[n] \in DOMAIN rows[k]
                        THEN rows[k][kept[n]] ELSE NaN]]]

NoTable == [built |-> FALSE, raised |-> FALSE, columns |-> <<>>, rows |-> <<>>]
Raised == [built |-> FALSE, raised |-> TRUE, columns |-> <<>>, rows |-> <<>>]

\* Faulty variant: all_data_for_df outlives a run, so that a second run
\* appends its rows to those of the first.
TableOfKeepsRows(results) ==
    IF \E u \in 1..Len(results) : RowRaises(results[u])
    THEN Raised
    ELSE LET rows == IF table.built
                     THEN FullRows(results) \o FullRows(results)
                     ELSE FullRows(results)
         IN  Reindex(rows, final_columns(DfColumns(rows)))

\* Lines 107-132 on the list `results`.
TableOf(results) ==
    IF \E u \in 1..Len(results) : RowRaises(results[u])
    THEN Raised
    ELSE LET rows == FullRows(results) IN
         Reindex(rows, final_columns(DfColumns(rows)))

Aggregate ==
    /\ table = NoTable
    /\ table' = TableOf(outcomes)
    /\ UNCHANGED <<outcomes, previous, job_vars, config_vars, unit_vars>>

\* Lines 107-132 are run once more on the same all_results; the table of
\* the first run is kept for comparison.
Reaggregate ==
    /\ table # NoTable
    /\ previous = NoTable
    /\ previous' = table
    /\ table' = TableOf(outcomes)
    /\ UNCHANGED <<outcomes, job_vars, config_vars, unit_vars>>

TableNext == Aggregate \/ Reaggregate

\* ---- the system -----------------------------------------------------------
InitJobs ==
    /\ processed_jobs = <<>>
    /\ pc = [j \in Jobs |-> "none"]
    /\ file_contents = [j \in Jobs |-> NoFiles]
    /\ tasks = [j \in Jobs |-> <<>>]
    /\ semaphore = [j \in Jobs |-> 0]
    /\ all_results = [j \in Jobs |-> <<>>]
    /\ all_data_for_df = [j \in Jobs |-> <<>>]
    /\ csv_files = [j \in Jobs |-> NoFile]

\* The coroutine run on its own has not started.
InitUnit ==
    /\ unit = NewTask(1)
    /\ delay = initial_delay
    /\ total_wait = NoWait
    /\ meter = ZeroMeter

\* The row loop run on its own has no outcomes.
InitTable ==
    /\ outcomes = <<>>
    /\ table = NoTable
    /\ previous = NoTable

\* The service as configured: API_CONCURRENCY_LIMIT and JSON_RETRIES of
\* config.py.
InitConfig ==
    /\ api_concurrency_limit = API_CONCURRENCY_LIMIT
    /\ number_of_json_retries = JSON_RETRIES
    /\ exponential_backoff_factor = CHOOSE f \in Factors : TRUE

Init == InitJobs /\ InitConfig /\ InitUnit /\ InitTable

Next ==
    \/ upload_files_for_processing
    \/ \E j \in Jobs : get_job_status(j)
    \/ \E j \in Jobs : download_result_file(j)
    \/ \E j \in Jobs : StartJob(j)
    \/ \E j \in Jobs, u \in 1..MaxTotalUnits : Acquire(j, u)
    \/ \E j \in Jobs, u \in 1..MaxTotalUnits, r \in Replies : Reply(j, u, r)
    \/ \E j \in Jobs, u \in 1..MaxTotalUnits : WakeBackoff(j, u)
    \/ \E j \in Jobs, u \in 1..MaxTotalUnits : WakeJson(j, u)
    \/ \E j \in Jobs : GatherReturn(j)
    \/ \E j \in Jobs : WriteCsv(j)
    \/ \E j \in Jobs : SetCompleted(j)
    \/ \E j \in Jobs : ExitTempDir(j)

Spec == Init /\ [][Next]_vars

\* A step of the background task of job j or of one of its coroutines.
JobStep(j) ==
    \/ StartJob(j)
    \/ \E u \in 1..MaxTotalUnits : Acquire(j, u)
    \/ \E u \in 1..MaxTotalUnits, r \in Replies : Reply(j, u, r)
    \/ \E u \in 1..MaxTotalUnits : WakeBackoff(j, u)
    \/ \E u \in 1..MaxTotalUnits : WakeJson(j, u)
    \/ GatherReturn(j)
    \/ WriteCsv(j)
    \/ SetCompleted(j)
    \/ ExitTempDir(j)

\* No background task is under way.
Idle == \A j \in Jobs : pc[j] \in {"none", "returned"}

\* Jobs submitted one after the other: an upload arrives while the service
\* is idle.
LiveNext ==
    \/ Idle /\ upload_files_for_processing
    \/ \E j \in Jobs : JobStep(j)

\* The service on an event loop that keeps running what is ready, with an
\* endpoint that answers every request, by a response or an error, and
\* sleeps that end: no job that can take a step waits for ever.
LiveSpec == Init /\ [][LiveNext]_vars /\ \A j \in Jobs : WF_vars(JobStep(j))

\* One coroutine, for every configuration.
UnitInit ==
    /\ InitJobs
    /\ api_concurrency_limit = API_CONCURRENCY_LIMIT
    /\ number_of_json_retries \in 1..MaxJsonRetries
    /\ exponential_backoff_factor \in Factors
    /\ InitUnit
    /\ InitTable

UnitSpec == UnitInit /\ [][UnitNext]_vars

\* The row loop, for every list of results.
TableInit ==
    /\ InitJobs
    /\ InitConfig
    /\ InitUnit
    /\ outcomes \in OutcomeLists
    /\ table = NoTable
    /\ previous = NoTable

TableSpec == TableInit /\ [][TableNext]_vars

\* ---- a batch of five units, two at a time ---------------------------------
\* One job whose archive holds ScenarioUnits images, run with a concurrency
\* limit of ScenarioLimit against an endpoint that answers the unit at place
\* FlakyUnit with a 503 first and with valid output afterwards, the unit at
\* place MalformedUnit with undecodable text every time, and every other
\* unit with valid output.  The output location and the temporary directory
\* do not fail.
ScenarioUnits == 5
ScenarioLimit == 2
FlakyUnit == 3
MalformedUnit == 5

ScenarioFiles == [zip_names |-> TRUE, readable |-> TRUE, images |-> ScenarioUnits]

\* The endpoint's reply to the request the coroutine t of unit u has out.
ScenarioReplyTo(u, t) ==
    IF u = FlakyUnit /\ t.attempt = 0 /\ t.i = 0 THEN "status_5xx"
    ELSE IF u = MalformedUnit THEN "text_malformed"
    ELSE "valid"

\* POST /upload has registered the job and scheduled its background task.
ScenarioInit ==
    /\ processed_jobs = [k \in {1} |-> NewJobRecord(1)]
    /\ pc = [j \in Jobs |-> IF j = 1 THEN "scheduled" ELSE "none"]
    /\ file_contents = [j \in Jobs |-> IF j = 1 THEN ScenarioFiles ELSE NoFiles]
    /\ tasks = [j \in Jobs |-> <<>>]
    /\ semaphore = [j \in Jobs |-> 0]
    /\ all_results = [j \in Jobs |-> <<>>]
    /\ all_data_for_df = [j \in Jobs |-> <<>>]
    /\ csv_files = [j \in Jobs |-> NoFile]
    /\ api_concurrency_limit = ScenarioLimit
    /\ number_of_json_retries = JSON_RETRIES
    /\ exponential_backoff_factor = CHOOSE f \in Factors : TRUE
    /\ InitUnit
    /\ InitTable

ScenarioReply(u) ==
    /\ u \in DOMAIN tasks[1]
    /\ Reply(1, u, ScenarioReplyTo(u, tasks[1][u]))

\* df.to_csv writes the whole table.
ScenarioWriteCsv == WriteCsv(1) /\ pc'[1] = "written"

\* The temporary directory is removed.
ScenarioExitTempDir == ExitTempDir(1) /\ UNCHANGED processed_jobs

ScenarioNext ==
    \/ StartJob(1)
    \/ \E u \in 1..ScenarioUnits : Acquire(1, u)
    \/ \E u \in 1..ScenarioUnits : ScenarioReply(u)
    \/ \E u \in 1..ScenarioUnits : WakeBackoff(1, u)
    \/ \E u \in 1..ScenarioUnits : WakeJson(1, u)
    \/ GatherReturn(1)
    \/ ScenarioWriteCsv
    \/ SetCompleted(1)
    \/ ScenarioExitTempDir

\* The event loop runs every coroutine that is ready, every request is
\* answered and every sleep ends.
ScenarioSpec == ScenarioInit /\ [][ScenarioNext]_vars /\ WF_vars(ScenarioNext)

\* ---- properties -----------------------------------------------------------
Registered == DOMAIN processed_jobs
Last(seq) == seq[Len(seq)]
Status(j) == processed_jobs[j].status

\* C1: in every reachable state the units of a job that are past the
\* semaphore (sending, in a backoff sleep or in a JSON retry sleep) number at
\* most API_CONCURRENCY_LIMIT, and a step in which a unit enters starts from
\* a state with fewer than API_CONCURRENCY_LIMIT units in flight.
C1_InFlightBounded ==
    /\ [](\A j \in Jobs : Cardinality(InFlight(j)) <= API_CONCURRENCY_LIMIT)
    /\ [][\A j \in Jobs :
            (\E u \in DOMAIN tasks[j] :
                /\ tasks[j][u].st = "new"
                /\ u \in DOMAIN tasks'[j]
                /\ tasks'[j][u].st # "new")
            => Cardinality(InFlight(j)) < API_CONCURRENCY_LIMIT]_vars

\* A job has as many units in flight as the limit allows and a further unit
\* waits for a slot.
C1_Witness ==
    \E j \in Jobs :
        /\ Cardinality(InFlight(j)) = API_CONCURRENCY_LIMIT
        /\ \E u \in DOMAIN tasks[j] : tasks[j][u].st = "new"

\* C2: every coroutine that has returned carries a result with the file_path
\* of its own unit; once gather has returned, all_results has one result per
\* unit of the work list, in place, and the rows built from it, and the rows
\* of a written table, number total_files.
C2_OneOutcomePerUnit ==
    \A j \in Registered :
        /\ \A u \in DOMAIN tasks[j] :
              tasks[j][u].st = "done" =>
                  /\ tasks[j][u].result.file_path = tasks[j][u].path
                  /\ tasks[j][u].path = u
        /\ pc[j] \in SyncTail =>
              /\ Len(all_results[j]) = processed_jobs[j].total_files
              /\ \A u \in 1..Len(all_results[j]) : all_results[j][u].file_path = u
              /\ Len(all_data_for_df[j]) = processed_jobs[j].total_files
              /\ \A k \in 1..Len(all_data_for_df[j]) : all_data_for_df[j][k].filepath = k
        /\ pc[j] \in {"written", "marked"} =>
              Len(csv_files[CsvPath(j)].rows) = processed_jobs[j].total_files

\* gather has returned for a job of two or more units of which one failed and
\* one succeeded.
C2_Witness ==
    \E j \in Registered :
        /\ pc[j] = "aggregated"
        /\ Len(all_results[j]) >= 2
        /\ \E u \in 1..Len(all_results[j]) : all_results[j][u].error # Absent
        /\ \E u \in 1..Len(all_results[j]) : all_results[j][u].error = Absent

\* C3: a job whose status is completed has processed_files = total_files.
C3_CounterReachesTotal ==
    \A j \in Registered :
        Status(j) = "completed" =>
            processed_jobs[j].processed_files = processed_jobs[j].total_files

\* C4 (as claimed): every change of a job's status is one of queued ->
\* processing, processing -> completed, processing -> failed.
C4_OnlyClaimedEdges ==
    [][\A j \in Registered :
          Status(j) # processed_jobs'[j].status =>
              <<Status(j), processed_jobs'[j].status>> \in
                  {<<"queued", "processing">>, <<"processing", "completed">>,
                   <<"processing", "failed">>}]_vars

\* C4 (amended): a job leaves queued only for processing or failed and leaves
\* processing only for completed or failed; processing is entered only from
\* queued and completed only from processing.
C4_EdgesOfLiveStates ==
    [][\A j \in Registered :
          LET a == Status(j)
              b == processed_jobs'[j].status
          IN  a # b =>
                /\ a = "queued" => b \in {"processing", "failed"}
                /\ a = "processing" => b \in {"completed", "failed"}
                /\ b = "processing" => a = "queued"
                /\ b = "completed" => a = "processing"]_vars

\* A job has failed without ever having been processing: its archives could
\* not be opened.
C4_Witness ==
    \E j \in Registered :
        /\ Status(j) = "failed"
        /\ processed_jobs[j].error_message = "BadZipFile"
        /\ \E k \in Registered : Status(k) = "completed"

\* C5: once a job's status is completed or failed, no step changes it.
C5_TerminalAbsorbing ==
    [][\A j \in Registered :
          Status(j) \in {"completed", "failed"} =>
              processed_jobs'[j].status = Status(j)]_vars

\* C6: a job is failed only through a fault outside the per-unit path:
\* an archive that does not open or an I/O fault of the output or of the
\* temporary directory; no reply to a unit makes the job fail.
C6_FailedOnlyOutsideUnits ==
    \A j \in Registered :
        Status(j) = "failed" =>
            processed_jobs[j].error_message \in {"BadZipFile", "OSError"}

\* C7: a job whose status is completed has its whole table on disk at the
\* path recorded in output_file_path, one row per unit.
C7_CompletedAfterWrite ==
    \A j \in Registered :
        Status(j) = "completed" =>
            /\ processed_jobs[j].output_file_path = CsvPath(j)
            /\ csv_files[CsvPath(j)].exists
            /\ Len(csv_files[CsvPath(j)].rows) = processed_jobs[j].total_files
            /\ processed_jobs[j].end_time

\* A job with at least one unit is completed.
C7_Witness ==
    \E j \in Registered :
        /\ Status(j) = "completed"
        /\ processed_jobs[j].total_files >= 1
        /\ csv_files[CsvPath(j)].exists

\* C8: a job whose status is failed has no table on disk and carries an
\* error_message.
C8_FailedHasNoTable ==
    \A j \in Registered :
        Status(j) = "failed" =>
            /\ ~csv_files[CsvPath(j)].exists
            /\ processed_jobs[j].error_message # Absent

\* C9: in every reachable state GET /download answers an unknown job with
\* 404, a job that is queued, processing or failed with 400, and hands out a
\* table only for a completed job: the table at the job's recorded path.
C9_DownloadOnlyCompleted ==
    \A job_id \in Jobs :
        LET r == DownloadResponse(job_id) IN
        /\ job_id \notin Registered => r.code = 404
        /\ job_id \in Registered /\ Status(job_id) # "completed" => r.code = 400
        /\ r.code = 200 =>
              /\ job_id \in Registered
              /\ Status(job_id) = "completed"
              /\ r.path = CsvPath(job_id)
              /\ csv_files[r.path].exists
        /\ r.code # 200 => r.path = NoPath

\* One job's table can be downloaded while another job is refused as not
\* complete.
C9_Witness ==
    /\ AtAwait
    /\ \E job_id \in Jobs : DownloadResponse(job_id).code = 200
    /\ \E job_id \in Jobs : DownloadResponse(job_id).code = 400

\* C10: a job is queued exactly while its background task is scheduled and
\* has not started; in that window the record has total_files 0 and
\* processed_files 0, no coroutine of the job exists and GET /status answers
\* queued.
C10_QueuedUntilTaskStarts ==
    \A j \in Jobs :
        /\ j \in Registered <=> pc[j] # "none"
        /\ j \in Registered => (Status(j) = "queued" <=> pc[j] = "scheduled")
        /\ pc[j] = "scheduled" =>
              /\ processed_jobs[j].total_files = 0
              /\ processed_jobs[j].processed_files = 0
              /\ tasks[j] = <<>>
              /\ StatusResponse(j).code = 200
              /\ StatusResponse(j).detail = "queued"

\* A job with images is registered and its background task has not started,
\* while another job is being processed.
C10_Witness ==
    \E j \in Jobs :
        /\ pc[j] = "scheduled"
        /\ file_contents[j].images >= 1
        /\ StatusResponse(j).detail = "queued"
        /\ \E k \in Jobs : pc[k] = "gather"

\* The units of job j that have sent a first request and have no result yet.
Started(j) == { u \in DOMAIN tasks[j] : tasks[j][u].st \notin {"new", "done"} }

\* C17: while a job's batch runs and after it, the slots missing from the
\* job's semaphore are exactly those of its units that have started and
\* have no result yet: a unit that has not sent its first request holds
\* none, a unit waiting for a response, in a backoff sleep or in a JSON
\* retry sleep holds one, and a unit with a result (success or error
\* record) holds none.
C17_SlotHeldUntilOutcome ==
    \A j \in Jobs :
        pc[j] \in {"gather"} \cup SyncTail =>
            semaphore[j] = API_CONCURRENCY_LIMIT - Cardinality(Started(j))

\* One unit sleeps before a malformed-output retry and holds the last slot
\* while another unit waits for one.
C17_Witness ==
    \E j \in Jobs :
        /\ semaphore[j] = 0
        /\ \E u \in DOMAIN tasks[j] : tasks[j][u].st = "json_sleep"
        /\ \E u \in DOMAIN tasks[j] : tasks[j][u].st = "new"

\* C31: the step in which the background task of a job meets an archive
\* that does not open, whatever images the other archives of the upload
\* hold, sets the job failed with an error message and ends the task with
\* no coroutine created and nothing written; and a job that failed that way
\* has, ever after, no unit, no semaphore slot taken, total_files 0 and no
\* table on disk.
C31_BadArchiveFailsJob ==
    /\ [](\A j \in Registered :
            processed_jobs[j].error_message = "BadZipFile" =>
                /\ Status(j) = "failed"
                /\ pc[j] = "returned"
                /\ tasks[j] = <<>>
                /\ all_results[j] = <<>>
                /\ processed_jobs[j].total_files = 0
                /\ processed_jobs[j].output_file_path = NoPath
                /\ ~csv_files[CsvPath(j)].exists)
    /\ [][\A j \in Jobs :
            /\ pc[j] = "scheduled"
            /\ ~file_contents[j].readable
            /\ pc'[j] # "scheduled"
            => /\ processed_jobs'[j].status = "failed"
               /\ processed_jobs'[j].error_message = "BadZipFile"
               /\ pc'[j] = "returned"
               /\ tasks'[j] = <<>>
               /\ csv_files' = csv_files]_vars

\* A job has failed on an archive that does not open while a unit of
\* another job is waiting for the endpoint's response.
C31_Witness ==
    \E j \in Registered :
        /\ processed_jobs[j].error_message = "BadZipFile"
        /\ pc[j] = "returned"
        /\ \E k \in Jobs \ {j} :
              \E u \in DOMAIN tasks[k] : tasks[k][u].st = "request"

\* C32: total_files changes only in the step that takes a job from queued
\* to processing, which sets it to the number of units of the work list
\* while no unit has started; a queued job has total_files 0 and a job whose
\* batch runs has total_files equal to the number of its coroutines; in
\* every state 0 <= processed_files <= total_files and, when total_files >
\* 0, progress_percentage * total_files = processed_files; and no step
\* lowers processed_files.
C32_CountersOfAJob ==
    /\ [](\A j \in Registered :
            LET rec == processed_jobs[j] IN
            /\ 0 <= rec.processed_files
            /\ rec.processed_files <= rec.total_files
            /\ rec.total_files > 0 =>
                  rec.progress_percentage * rec.total_files = rec.processed_files
            /\ rec.status = "queued" => rec.total_files = 0
            /\ pc[j] = "gather" => rec.total_files = Len(tasks[j]))
    /\ [][\A j \in Registered :
            LET rec == processed_jobs[j]
                new == processed_jobs'[j]
            IN  /\ new.processed_files >= rec.processed_files
                /\ new.total_files # rec.total_files =>
                      rec.status = "queued" /\ new.status = "processing"
                /\ rec.status = "queued" /\ new.status = "processing" =>
                      /\ new.total_files = Len(tasks'[j])
                      /\ \A u \in DOMAIN tasks'[j] : tasks'[j][u].st = "new"]_vars

\* A job of two units is being processed, one unit has its result and the
\* other is waiting for the endpoint.
C32_Witness ==
    \E j \in Registered :
        /\ Status(j) = "processing"
        /\ processed_jobs[j].total_files = 2
        /\ \E u \in DOMAIN tasks[j] : tasks[j][u].st = "done"
        /\ \E u \in DOMAIN tasks[j] : tasks[j][u].st = "request"

C11_NonRetryableFailsAtOnce ==
    /\ unit.st = "backoff" =>
          meter.last \in {"network_error", "status_5xx", "status_429"}
    /\ meter.last \in {"status_4xx", "no_content"} =>
          /\ unit.st = "done"
          /\ unit.result.error # Absent
          /\ meter.sent = meter.answered
          /\ meter.requests = meter.sleeps + 1
          /\ Last(meter.returned) = meter.last

\* A client call has failed on its first attempt with a 4xx status: one
\* request, no sleep.
C11_Witness ==
    /\ meter.last = "status_4xx"
    /\ unit.st = "done"
    /\ meter.requests = 1
    /\ meter.sleeps = 0
    /\ meter.sent = 1

\* C12: a client call sends at most API_RETRIES requests and sleeps at most
\* API_RETRIES - 1 times; it sleeps only while attempts remain; and when the
\* unit is done after a network error, a 5xx or a 429 (with or without a
\* Retry-After hint), the call that failed sent exactly API_RETRIES requests
\* and slept once less: the last failure raised without a sleep.
C12_AtMostMaxRetriesRequests ==
    /\ meter.requests <= API_RETRIES
    /\ meter.sleeps <= API_RETRIES - 1
    /\ unit.st = "backoff" => meter.requests < API_RETRIES
    /\ /\ unit.st = "done"
       /\ meter.last \in {"network_error", "status_5xx", "status_429"}
       => /\ unit.result.error # Absent
          /\ meter.requests = API_RETRIES
          /\ meter.sleeps = API_RETRIES - 1
          /\ meter.sent = meter.answered

\* The last attempt of a call got a 429 with a usable Retry-After hint and
\* the client raised all the same.
C12_Witness ==
    /\ unit.st = "done"
    /\ meter.last = "status_429"
    /\ meter.hint = "2"
    /\ meter.requests = API_RETRIES

\* C13: when the reply received last is a 429 whose Retry-After is the
\* numeral 0 or 2 and the client call has attempts left, the client sleeps,
\* and the sleep is the hint (0 s, 2 s) plus a jitter of at least 0 s and
\* less than 1 s, whatever the exponential delay is by then; with no
\* attempt left the unit is done.
C13_HintPlusJitter ==
    /\ meter.last = "status_429"
    /\ meter.hint \in {"0", "2"}
    /\ meter.sent = meter.answered
    => IF meter.requests < API_RETRIES
       THEN /\ unit.st = "backoff"
            /\ meter.hint = "0" => total_wait.wait_time = 0
            /\ meter.hint = "2" => total_wait.wait_time = Seconds(2)
            /\ total_wait.jitter >= 0
            /\ total_wait.jitter < Seconds(1)
       ELSE unit.st = "done"

\* The client sleeps 0 s plus a positive jitter on a hint of 0 while its
\* exponential delay is 1.5 s.
C13_Witness ==
    /\ unit.st = "backoff"
    /\ meter.last = "status_429"
    /\ meter.hint = "0"
    /\ total_wait.wait_time = 0
    /\ total_wait.jitter > 0
    /\ delay = initial_delay

\* C14: whenever the client is in a backoff sleep that was not decided by a
\* 429 carrying a non-negative numeral as Retry-After, the base wait of the
\* sleep is initial_delay * factor^k, k being the number of failed attempts
\* of the call before this one (whatever their waits were taken from), and
\* with factor > 1 it exceeds the value for k - 1.
C14_BaseWaitGeometric ==
    /\ unit.st = "backoff"
    /\ ~(meter.last = "status_429" /\ meter.hint \in {"0", "2"})
    => LET k == meter.sleeps - 1 IN
       /\ k = unit.i
       /\ total_wait.wait_time = initial_delay * Pow(exponential_backoff_factor, k)
       /\ exponential_backoff_factor > 1 /\ k > 0 =>
             total_wait.wait_time >
                 initial_delay * Pow(exponential_backoff_factor, k - 1)

\* The client calls finished so far all returned undecodable text.
AllMalformed(calls) == \A n \in 1..Len(calls) : calls[n] = "text_malformed"

\* C15: for every budget number_of_json_retries, as long as fewer client
\* calls than the budget have returned, all of them undecodable text, the
\* unit is not done (a further call is made or about to be); and when k <
\* budget such calls were followed by one returning valid text, the unit is
\* done with a success.
C15_ValidAfterMalformedSucceeds ==
    /\ /\ AllMalformed(meter.returned)
       /\ Len(meter.returned) < number_of_json_retries
       => unit.st # "done"
    /\ /\ meter.returned # <<>>
       /\ Last(meter.returned) = "valid"
       /\ AllMalformed(SubSeq(meter.returned, 1, Len(meter.returned) - 1))
       /\ Len(meter.returned) <= number_of_json_retries
       => /\ unit.st = "done"
          /\ unit.result.error = Absent
          /\ unit.result.fields = "list"

\* C16: for every budget number_of_json_retries, a unit that is done after
\* client calls that all returned undecodable text has made exactly
\* number_of_json_retries client calls and carries an error record with its
\* own file_path.
C16_ExhaustionAfterBudgetCalls ==
    /\ unit.st = "done"
    /\ meter.returned # <<>>
    /\ AllMalformed(meter.returned)
    => /\ Len(meter.returned) = number_of_json_retries
       /\ unit.result.error # Absent
       /\ unit.result.file_path = unit.path

\* C18: a unit has at most one request outstanding, and has one exactly
\* while it waits on client.post; a step that sends a request starts from a
\* state in which every earlier request is answered and in which the unit
\* either has sent nothing yet or is in the sleep decided for the last
\* answer (a backoff sleep or the sleep of the JSON retry loop), which the
\* step ends; and a client call has slept once per request but the first.
C18_RequestsSequential ==
    /\ [](/\ meter.sent - meter.answered \in {0, 1}
          /\ unit.st = "request" <=> meter.sent = meter.answered + 1
          /\ unit.st = "request" => meter.requests = meter.sleeps + 1
          /\ unit.st = "backoff" => meter.requests = meter.sleeps)
    /\ [][meter'.sent # meter.sent =>
            /\ meter'.sent = meter.sent + 1
            /\ meter.sent = meter.answered
            /\ \/ meter.sent = 0 /\ unit.st = "new"
               \/ unit.st \in {"backoff", "json_sleep"}
            /\ unit'.st = "request"]_vars

\* The third request of a unit is outstanding; it was sent after the sleep
\* of the JSON retry loop and a backoff sleep.
C18_Witness ==
    /\ unit.st = "request"
    /\ meter.sent = 3
    /\ meter.answered = 2
    /\ meter.json_sleeps = 1
    /\ meter.sleeps = 1

C24_BadEnvelopeFailsAtOnce ==
    /\ meter.last \in {"body_not_json", "envelope_invalid"}
    /\ meter.sent = meter.answered
    => /\ unit.st = "done"
       /\ unit.result.error # Absent
       /\ Last(meter.returned) = meter.last
       /\ Len(meter.returned) = 1 => meter.sent = meter.sleeps + 1
       /\ meter.answered = 1 => meter.sent = 1 /\ meter.json_sleeps = 0

\* C25: in every backoff sleep the base wait is not negative, and it differs
\* from initial_delay * factor^k (k the failed attempts of the call before
\* this one) only if the sleep was decided by a 429 whose Retry-After is
\* present and parses to a number that is not negative, the base wait then
\* being that number of seconds; a hint that is absent, empty, negative or
\* no numeral leaves the exponential wait in place.
C25_HintOnlyIfNonNegative ==
    unit.st = "backoff" =>
        LET exponential ==
                initial_delay * Pow(exponential_backoff_factor, meter.sleeps - 1)
            usable ==
                /\ meter.last = "status_429"
                /\ meter.hint \notin {Absent, ""}
                /\ IntParses(meter.hint)
                /\ IntOf(meter.hint) >= 0
        IN  /\ total_wait.wait_time >= 0
            /\ usable => total_wait.wait_time = Seconds(IntOf(meter.hint))
            /\ ~usable => total_wait.wait_time = exponential

\* C26: for every budget number_of_json_retries, every sleep of the JSON
\* retry loop is 1 s long and is followed by a further attempt (it is never
\* taken after the last attempt of the budget), and a unit that is done has
\* slept exactly once between each two consecutive client calls.
C26_FixedSleepBetweenAttempts ==
    /\ unit.st = "json_sleep" =>
          /\ meter.json_wait = Seconds(1)
          /\ unit.attempt + 1 < number_of_json_retries
          /\ meter.json_sleeps = Len(meter.returned)
    /\ unit.st = "done" => meter.json_sleeps = Len(meter.returned) - 1

\* C27 (as claimed): with the budget of three, the JSON retry loop sleeps
\* after its first attempt only: it is never asleep after the second
\* attempt, so a unit sleeps there at most once.
C27_SleepsOnlyAfterFirst ==
    number_of_json_retries = JSON_RETRIES =>
        /\ unit.st = "json_sleep" => unit.attempt = 0
        /\ meter.json_sleeps <= 1

\* C27 (amended): with the budget of three, a client call that returns
\* undecodable text as the first or as the second attempt is followed by
\* the sleep of 1 s and a further attempt; the third is followed by the
\* Failure without a sleep; so the loop has slept once per attempt made
\* before the current one, twice at most.
C27_SleepsAfterFirstAndSecond ==
    number_of_json_retries = JSON_RETRIES =>
        /\ /\ meter.last = "text_malformed"
           /\ meter.sent = meter.answered
           => IF Len(meter.returned) < JSON_RETRIES
              THEN /\ unit.st = "json_sleep"
                   /\ unit.attempt = Len(meter.returned) - 1
                   /\ meter.json_wait = Seconds(1)
                   /\ meter.json_sleeps = Len(meter.returned)
              ELSE /\ unit.st = "done"
                   /\ unit.result.error # Absent
                   /\ meter.json_sleeps = JSON_RETRIES - 1
        /\ unit.st = "json_sleep" => unit.attempt \in {0, 1}
        /\ unit.st \in {"request", "backoff"} => meter.json_sleeps = unit.attempt
        /\ meter.json_sleeps <= JSON_RETRIES - 1

\* With the budget of three, the unit sleeps between its second and its
\* third attempt, for the second time.
C27_Witness ==
    /\ number_of_json_retries = JSON_RETRIES
    /\ unit.st = "json_sleep"
    /\ unit.attempt = 1
    /\ meter.json_sleeps = 2
    /\ AllMalformed(meter.returned)

\* C28: a unit that is done with a result without an error has a result
\* whose extracted_fields is a list; after a reply that is a JSON object
\* without that key, or with another value under it, the unit is done with
\* an error record.
C28_SuccessHasFieldList ==
    /\ unit.st = "done" /\ unit.result.error = Absent =>
          unit.result.fields = "list"
    /\ /\ meter.last \in {"fields_absent", "fields_not_list"}
       /\ meter.sent = meter.answered
       => unit.st = "done" /\ unit.result.error # Absent

\* C36: a client call under way has sent one request more than its attempt
\* index i, which starts at 0 in every pass of the JSON retry loop, and the
\* delay of a call that has sent its first request only is initial_delay;
\* a call under way may still use what is left of API_RETRIES whatever the
\* earlier passes used; so the unit sends at most number_of_json_retries *
\* API_RETRIES requests, at most API_RETRIES per pass.
C36_NestedRetryBudgets ==
    /\ unit.st \in {"request", "backoff"} =>
          /\ meter.requests = unit.i + 1
          /\ unit.i < API_RETRIES
          /\ meter.sent <= unit.attempt * API_RETRIES + meter.requests
    /\ unit.st = "request" /\ unit.i = 0 => delay = initial_delay
    /\ unit.attempt < number_of_json_retries
    /\ meter.sent <= number_of_json_retries * API_RETRIES

\* With the budgets as configured, a unit is done after JSON_RETRIES *
\* API_RETRIES requests: every client call used all its attempts and
\* returned undecodable text from the last.
C36_Witness ==
    /\ number_of_json_retries = JSON_RETRIES
    /\ unit.st = "done"
    /\ meter.sent = JSON_RETRIES * API_RETRIES
    /\ AllMalformed(meter.returned)
    /\ Len(meter.returned) = JSON_RETRIES

\* The extractions in flight in all jobs.
InFlightAll == UNION { { <<j, u>> : u \in InFlight(j) } : j \in Jobs }

\* C37: each job has at most API_CONCURRENCY_LIMIT extractions in flight;
\* whether a unit that has not started can enter the semaphore depends on the
\* in-flight count of its own job alone, and a request under way or a sleep
\* of one job proceeds whatever the units of the other jobs are doing.
C37_SemaphorePerJob ==
    \A j \in Jobs :
        /\ Cardinality(InFlight(j)) <= API_CONCURRENCY_LIMIT
        /\ AtAwait /\ pc[j] = "gather" =>
              \A u \in DOMAIN tasks[j] :
                  /\ tasks[j][u].st = "new" =>
                        (ENABLED Acquire(j, u)
                           <=> Cardinality(InFlight(j)) < API_CONCURRENCY_LIMIT)
                  /\ tasks[j][u].st = "request" =>
                        \A r \in Replies : ENABLED Reply(j, u, r)
                  /\ tasks[j][u].st = "backoff" => ENABLED WakeBackoff(j, u)
                  /\ tasks[j][u].st = "json_sleep" => ENABLED WakeJson(j, u)

\* Every job is processed at once and each holds API_CONCURRENCY_LIMIT
\* extractions in flight, those of job 1 asleep before a retry: the total is
\* the number of jobs times the limit.
C37_Witness ==
    /\ \A j \in Jobs :
          pc[j] = "gather" /\ Cardinality(InFlight(j)) = API_CONCURRENCY_LIMIT
    /\ Cardinality(InFlightAll) = Cardinality(Jobs) * API_CONCURRENCY_LIMIT
    /\ \A u \in InFlight(1) : tasks[1][u].st \in {"backoff", "json_sleep"}
    /\ \E u \in InFlight(2) : tasks[2][u].st = "request"

\* The background task of job j is past line 96 with an empty work list.
ZeroJob(j) ==
    /\ j \in DOMAIN processed_jobs
    /\ pc[j] \in {"gather", "aggregated", "written", "marked"}
    /\ processed_jobs[j].total_files = 0

\* C38: a job whose readable archives hold no eligible image is set to
\* processing with total_files 0 and no coroutine; while its task runs it has
\* no unit that could send a request, its progress_percentage and
\* processed_files stay 0, and gather returns at once; its task goes on to
\* write a table with no rows and to set the job completed, and the only
\* steps that end it otherwise are the faults of the output location and of
\* the temporary directory (OSError), which fail any job.
C38_EmptyWorkListCompletes ==
    /\ [](\A j \in Jobs : ZeroJob(j) =>
            /\ tasks[j] = <<>>
            /\ all_results[j] = <<>>
            /\ all_data_for_df[j] = <<>>
            /\ \A u \in 1..MaxTotalUnits : ~ENABLED Acquire(j, u)
            /\ processed_jobs[j].progress_percentage = 0
            /\ processed_jobs[j].processed_files = 0
            /\ processed_jobs[j].status =
                  (IF pc[j] = "marked" THEN "completed" ELSE "processing")
            /\ pc[j] = "gather" /\ AtAwait => ENABLED GatherReturn(j)
            /\ pc[j] \in {"written", "marked"} =>
                  csv_files[CsvPath(j)] = CsvFile(<<>>))
    /\ [][\A j \in Jobs :
            /\ (pc[j] = "scheduled" /\ pc'[j] # "scheduled"
                 /\ file_contents[j].readable /\ file_contents[j].images = 0)
               => /\ pc'[j] = "gather"
                  /\ processed_jobs[j].status = "queued"
                  /\ processed_jobs'[j].status = "processing"
                  /\ processed_jobs'[j].total_files = 0
            /\ (ZeroJob(j) /\ pc'[j] # pc[j])
               => \/ /\ pc[j] = "gather" /\ pc'[j] = "aggregated"
                     /\ processed_jobs' = processed_jobs
                  \/ /\ pc[j] = "aggregated" /\ pc'[j] = "written"
                     /\ processed_jobs' = processed_jobs
                  \/ /\ pc[j] = "written" /\ pc'[j] = "marked"
                     /\ processed_jobs'[j].output_file_path = CsvPath(j)
                  \/ /\ pc[j] = "marked" /\ pc'[j] = "returned"
                     /\ processed_jobs' = processed_jobs
                  \/ /\ pc[j] \in {"aggregated", "marked"}
                     /\ pc'[j] = "returned"
                     /\ processed_jobs'[j].status = "failed"
                     /\ processed_jobs'[j].error_message = "OSError"]_vars

\* The task of a job with no eligible image has returned: the job is
\* completed, its table exists and has no rows, and its counters are 0.
C38_Witness ==
    \E j \in DOMAIN processed_jobs :
        /\ pc[j] = "returned"
        /\ processed_jobs[j].status = "completed"
        /\ processed_jobs[j].total_files = 0
        /\ processed_jobs[j].progress_percentage = 0
        /\ processed_jobs[j].output_file_path = CsvPath(j)
        /\ csv_files[CsvPath(j)] = CsvFile(<<>>)

\* Some file of the upload has no name or a name that, in lower case, does
\* not end in .zip.
HasBadName(upload) ==
    \E n \in 1..Len(upload.file_names) : ~Accepted(upload.file_names[n])

\* The uploads with such a file, and the answers to all uploads: 400 to
\* those and to no other, whatever id uuid4 has drawn.
BadUploads == { upload \in Uploads : HasBadName(upload) }
BadNamesAnswered400 ==
    \A upload \in Uploads : \A job_id \in Jobs :
        upload \in BadUploads
            <=> UploadResponse(Received(upload), job_id).code = 400

\* C39: an upload with a file whose name is not that of a .zip archive (the
\* name is empty or, in lower case, does not end in .zip) is answered 400,
\* and no step that changes the registry, keeps file contents or schedules
\* or moves a background task is the handling of such an upload, whatever
\* the names of the files before and after the bad one.
C39_BadNameLeavesRegistry ==
    /\ [](BadNamesAnswered400)
    /\ [][(\/ processed_jobs' # processed_jobs
             \/ pc' # pc
             \/ file_contents' # file_contents)
            => \A upload \in BadUploads : ~Upload(upload)]_vars

\* While a job is being processed the service can take an upload whose first
\* file is named as an archive and whose second is not, which it answers 400.
C39_Witness ==
    /\ \E j \in DOMAIN processed_jobs : pc[j] = "gather" /\ InFlight(j) # {}
    /\ \E upload \in Uploads :
          /\ Len(upload.file_names) > 1
          /\ Accepted(upload.file_names[1])
          /\ ~Accepted(upload.file_names[Len(upload.file_names)])
          /\ upload.readable /\ upload.images > 0
          /\ ENABLED Upload(upload)
          /\ UploadResponse(Received(upload), FreshId).code = 400

\* C40: records are neither removed nor replaced by others; a record
\* appears in the registry only by a submission, as the queued record with
\* its task scheduled; a record changes only in a step of the background
\* task of its own job, which is a step of no other job's task; so no step
\* of GET /status or GET /download changes the registry.  Both answer 404
\* for an id the registry does not hold.
C40_OnlyOwnTaskWrites ==
    /\ [](\A j \in Jobs \ DOMAIN processed_jobs :
            /\ StatusResponse(j).code = 404
            /\ DownloadResponse(j).code = 404
            /\ pc[j] = "none")
    /\ [][\A j \in Jobs :
            /\ j \in DOMAIN processed_jobs => j \in DOMAIN processed_jobs'
            /\ (j \notin DOMAIN processed_jobs /\ j \in DOMAIN processed_jobs')
               => /\ processed_jobs'[j] = NewJobRecord(j)
                  /\ pc'[j] = "scheduled"
                  /\ \E upload \in Uploads : Upload(upload)
            /\ (j \in DOMAIN processed_jobs
                 /\ processed_jobs'[j] # processed_jobs[j])
               => /\ JobStep(j)
                  /\ \A k \in Jobs \ {j} :
                        /\ ~JobStep(k)
                        /\ k \in DOMAIN processed_jobs =>
                              processed_jobs'[k] = processed_jobs[k]
                  /\ \A k \in Jobs :
                        ~get_job_status(k) /\ ~download_result_file(k)]_vars

\* The task of job 1 has written its record (the job is completed and its
\* table can be fetched) while job 2 is unknown to the registry: its
\* snapshot and its download are answered 404.
C40_Witness ==
    /\ DOMAIN processed_jobs = {1}
    /\ processed_jobs[1].status = "completed"
    /\ processed_jobs[1].total_files > 0
    /\ StatusResponse(1).code = 200
    /\ DownloadResponse(1).code = 200
    /\ StatusResponse(2).code = 404
    /\ DownloadResponse(2).code = 404
    /\ ENABLED get_job_status(2)

\* ---- properties of the table (TableSpec) ---------------------------------
Columns == { table.columns[n] : n \in 1..Len(table.columns) }

\* The entries named `name` of all outcomes.
EntriesOf(name) ==
    UNION { { outcomes[u].entries[n] :
                n \in { m \in 1..Len(outcomes[u].entries) :
                           outcomes[u].entries[m].field_name = name } } :
            u \in 1..Len(outcomes) }

\* C19: in a table that has been built, for every configured field the
\* column <field>_conf is present only if some outcome has an entry of that
\* field with a confidence, and the column <field>_reason only if some
\* outcome has an entry of that field with a reason.
C19_SubColumnsOnlyIfPopulated ==
    table.built =>
        \A f \in 1..Len(FIELDS) :
            /\ Col(FIELDS[f], "_conf") \in Columns =>
                  \E e \in EntriesOf(FIELDS[f]) : e.confidence # Absent
            /\ Col(FIELDS[f], "_reason") \in Columns =>
                  \E e \in EntriesOf(FIELDS[f]) : e.reason # Absent

\* C20: a table that has been built has the column `error` exactly if some
\* outcome carries an error, and then it is the last column.
C20_ErrorColumnIffSomeError ==
    table.built =>
        /\ Col("error", "") \in Columns <=>
              \E u \in 1..Len(outcomes) : outcomes[u].error # Absent
        /\ Col("error", "") \in Columns =>
              Last(table.columns) = Col("error", "")

ScenarioTable ==
    /\ Status(1) = "completed"
    /\ csv_files[CsvPath(1)].exists
    /\ Len(csv_files[CsvPath(1)].rows) = ScenarioUnits
    /\ csv_files[CsvPath(1)].rows[MalformedUnit].error # Absent
    /\ csv_files[CsvPath(1)].rows[FlakyUnit].error = Absent

\* C22: in the batch of 5 units with limit 2, unit 3 answered 503 then valid
\* output and unit 5 answered undecodable text every time, at most 2 units
\* are in flight in every state, the job never fails, and every run ends,
\* for good, with the job completed and a table of 5 rows in which row 5
\* has an error and row 3 has none.
C22_BatchOfFiveCompletes ==
    /\ [](Cardinality(InFlight(1)) <= ScenarioLimit)
    /\ [](Status(1) # "failed")
    /\ <>[](pc[1] = "returned" /\ ScenarioTable)

\* The background task has returned and left the table of five rows.
C22_Witness ==
    /\ pc[1] = "returned"
    /\ ScenarioTable
    /\ \A u \in 1..ScenarioUnits \ {MalformedUnit} :
           csv_files[CsvPath(1)].rows[u].error = Absent

\* The place of a column in the claimed order: folder_name, filepath, then
\* per configured field, in config.FIELDS order, its value, its _conf and
\* its _reason column, then error.
FieldPlace(name) == CHOOSE n \in 1..Len(FIELDS) : FIELDS[n] = name
SuffixPlace(suffix) == CASE suffix = "" -> 0 [] suffix = "_conf" -> 1 [] suffix = "_reason" -> 2
ColumnPlace(col) ==
    IF col = Col("folder_name", "") THEN 1
    ELSE IF col = Col("filepath", "") THEN 2
    ELSE IF col = Col("error", "") THEN 3 * Len(FIELDS) + 3
    ELSE 3 * FieldPlace(col[1]) + SuffixPlace(col[2])

Configured == { FIELDS[n] : n \in 1..Len(FIELDS) }

\* C29: a table that has been built starts with the columns folder_name and
\* filepath; every other column is the value, _conf or _reason column of a
\* configured field that has an entry in some outcome, or the error column
\* of an outcome that carries an error; every configured field with an
\* entry has its value column; the columns stand in the order folder_name,
\* filepath, the fields in config.FIELDS order each with its sub-columns
\* behind it, error; so an entry whose name is not configured adds no
\* column.
C29_ColumnsExactlyConfigured ==
    table.built =>
        /\ Len(table.columns) >= 2
        /\ table.columns[1] = Col("folder_name", "")
        /\ table.columns[2] = Col("filepath", "")
        /\ \A n \in 3..Len(table.columns) :
              LET col == table.columns[n] IN
              \/ /\ col[1] \in Configured
                 /\ col[2] \in {"", "_conf", "_reason"}
                 /\ EntriesOf(col[1]) # {}
              \/ /\ col = Col("error", "")
                 /\ \E u \in 1..Len(outcomes) : outcomes[u].error # Absent
        /\ \A f \in Configured : EntriesOf(f) # {} => Col(f, "") \in Columns
        /\ \A n \in 2..Len(table.columns) :
              ColumnPlace(table.columns[n - 1]) < ColumnPlace(table.columns[n])

\* The cell of row k of the table in column col.
Cell(k, col) ==
    table.rows[k][CHOOSE n \in 1..Len(table.columns) : table.columns[n] = col]

\* C30: a table that has been built has as many rows as there are outcomes,
\* and row k is the row of outcome k: its folder_name is the folder of that
\* unit's path in the archive ("root" at the top), its filepath is the
\* unit's file name, whatever the outcome's field entries are, and its
\* error is the outcome's error when it has one.
C30_RowPerOutcomeInOrder ==
    table.built =>
        /\ Len(table.rows) = Len(outcomes)
        /\ \A k \in 1..Len(table.rows) :
              LET path == PathOf(outcomes[k].file_path) IN
              /\ Cell(k, Col("folder_name", "")) = folder_name(path)
              /\ Cell(k, Col("filepath", "")) = basename(path)
              /\ outcomes[k].error # Absent =>
                    Cell(k, Col("error", "")) = outcomes[k].error

\* C33: in the batch of five, whatever the other units are doing (waiting
\* for a response, in a backoff sleep, in the sleep of the JSON retry loop),
\* a unit that waits for its response can receive it, and a unit in a sleep
\* can wake and send again; a unit that has not started can start exactly
\* if fewer than the limit of units hold a slot.
C33_SuspendedUnitsBlockOnlyWaiters ==
    \A u \in DOMAIN tasks[1] :
        /\ tasks[1][u].st = "request" => ENABLED ScenarioReply(u)
        /\ tasks[1][u].st = "backoff" => ENABLED WakeBackoff(1, u)
        /\ tasks[1][u].st = "json_sleep" => ENABLED WakeJson(1, u)
        /\ tasks[1][u].st = "new" =>
              (ENABLED Acquire(1, u) <=> Cardinality(Started(1)) < ScenarioLimit)

\* One unit is in a backoff sleep, another holds the second slot and waits
\* for its response, and a third waits for a slot.
C33_Witness ==
    /\ tasks[1] # <<>>
    /\ tasks[1][FlakyUnit].st = "backoff"
    /\ \E u \in DOMAIN tasks[1] : tasks[1][u].st = "request"
    /\ \E u \in DOMAIN tasks[1] : tasks[1][u].st = "new"
    /\ semaphore[1] = 0

\* What the units of the batch of five return, by their place in the work
\* list.
ScenarioResult(u) ==
    IF u = MalformedUnit
    THEN ErrorRecord("JSON Decode Error after retries", u)
    ELSE SuccessRecord("list", u)

\* C35: in the batch of five, where the replies of every unit are fixed and
\* the units finish in whatever order the event loop runs them, in every
\* state after gather has returned all_results is the same list: the result
\* of unit u at place u; and the rows built from it, and the rows of the
\* table written, are in the same order.
C35_ResultsInWorkListOrder ==
    /\ pc[1] \in SyncTail =>
          /\ all_results[1] = [u \in 1..ScenarioUnits |-> ScenarioResult(u)]
          /\ all_data_for_df[1] = [u \in 1..ScenarioUnits |-> RowOf(ScenarioResult(u))]
    /\ csv_files[CsvPath(1)].exists =>
          csv_files[CsvPath(1)].rows = [u \in 1..ScenarioUnits |-> RowOf(ScenarioResult(u))]
    /\ \A u \in DOMAIN tasks[1] :
          tasks[1][u].st = "done" => tasks[1][u].result = ScenarioResult(u)

\* gather has returned the five results.
C35_Witness ==
    /\ pc[1] = "aggregated"
    /\ Len(all_results[1]) = ScenarioUnits
    /\ all_results[1][MalformedUnit].error # Absent
    /\ all_results[1][FlakyUnit] = SuccessRecord("list", FlakyUnit)

====
